---- MODULE Spec2Model ----
(***************************************************************************)
(* LinguaBuddy conversation session: the ChatInterface component           *)
(* (src/src/components/Chat/ChatInterface.tsx) with the Record Store and   *)
(* the ai-chat edge function (src/supabase/functions/ai-chat/index.ts) it  *)
(* talks to.                                                               *)
(*                                                                         *)
(* Representation.                                                         *)
(*  - A text is a sequence of tokens; the token " " is a whitespace        *)
(*    character, every other token stands for a piece of text that neither *)
(*    starts nor ends with whitespace.  String.prototype.trim is Trim.     *)
(*  - A JavaScript value that may be a string, undefined or null is a      *)
(*    record [k, v]: k is its kind, v its text (<<>> unless a string).     *)
(*  - React state is the committed state.  Event handlers run against the  *)
(*    last committed render (discrete events are flushed before the next   *)
(*    one is dispatched); what a running handleSend keeps from the render  *)
(*    it was called in is the variable closure (its `messages`).           *)
(*  - An awaited external call returns a value, returns an error value, or *)
(*    rejects; which one is the environment's choice.                      *)
(***************************************************************************)
EXTENDS Integers, Sequences, FiniteSets

VARIABLES
    messages,        \* useState<Message[]>            ChatInterface.tsx:29
    input,           \* useState('')                   ChatInterface.tsx:30
    loading,         \* useState(false)                ChatInterface.tsx:31
    conversationId,  \* useState<string | null>(null)  ChatInterface.tsx:32
    language,        \* props.language                 ChatInterface.tsx:27
    initPc,          \* position of initializeConversation
    pc,              \* position of the running handleSend ("idle": none)
    closure,         \* `messages` of the render handleSend was called in
    userMessage,     \* handleSend's local userMessage
    response,        \* handleSend's local response (fetch result)
    storeCalls,      \* requests issued to the Record Store, in issue order
    inferCalls,      \* requests issued to the ai-chat function, in issue order
    now,             \* the last value Date.now() returned
    ev               \* "handleSend" if the last step was a call of handleSend

vars == <<messages, input, loading, conversationId, language, initPc, pc,
          closure, userMessage, response, storeCalls, inferCalls, now, ev>>

----------------------------------------------------------------------------
(* Bounds *)

\* a submission is accepted only while the sequence is shorter than this
MaxMessages == 4
\* largest clock reading
MaxClock == 1

----------------------------------------------------------------------------
(* JavaScript values *)

Null == "null"

Str(s) == [k |-> "string", v |-> s]
Undefined == [k |-> "undefined", v |-> <<>>]
JsNull == [k |-> "null", v |-> <<>>]

Digit == <<"0", "1", "2", "3", "4", "5", "6", "7", "8", "9">>

RECURSIVE ToString(_)
ToString(n) ==
    IF n < 10 THEN Digit[n + 1]
    ELSE ToString(n \div 10) \o Digit[(n % 10) + 1]

IsSpace(c) == c = " "

RECURSIVE TrimStart(_)
TrimStart(s) ==
    IF s /= <<>> /\ IsSpace(Head(s)) THEN TrimStart(Tail(s)) ELSE s

RECURSIVE TrimEnd(_)
TrimEnd(s) ==
    IF s /= <<>> /\ IsSpace(s[Len(s)])
    THEN TrimEnd(SubSeq(s, 1, Len(s) - 1))
    ELSE s

Trim(s) == TrimEnd(TrimStart(s))

----------------------------------------------------------------------------
(* Inputs of the environment *)

\* values of the text field: empty, whitespace only, a word, a padded phrase
Inputs ==
    { <<>>,
      <<" ", " ">>,
      <<"Hola">>,
      <<" ", "Buenos", " ", "dias", " ">> }

Languages ==
    { [id |-> "l-es", name |-> "Spanish", code |-> "es",
       difficulty_level |-> "Beginner"],
      [id |-> "l-ko", name |-> "Korean", code |-> "ko",
       difficulty_level |-> "Advanced"] }

\* useAuth().user: App renders ChatInterface only with a user (App.tsx)
NoUser == [id |-> Null]
user == [id |-> "user-1"]

ConvIds == {"conv-1"}

\* what an awaited Record Store request can do
StoreOutcomes == {"ok", "error", "reject"}

\* { data, error } of createConversation
CreateResults ==
    { [error |-> FALSE, data |-> c] : c \in ConvIds }
        \cup { [error |-> TRUE, data |-> Null] }

----------------------------------------------------------------------------
(* The ai-chat edge function                                               *)

\* raw texts the model may return as choices[0].message.content
RawReplies ==
    { "{\"response\":\"Hola\",\"translation\":\"Hello\",\"tip\":\"Use formal greetings\"}",
      "{\"response\":\"Que tal?\",\"translation\":\"How are you?\"}",
      "{\"reply\":\"Hola\"}",
      "Hola amigo",
      "42",
      "null" }

\* a parsed JSON value: an object (with the three fields the client reads),
\* null, or another value (number, string, boolean, array)
JsonObject(r, t, p) ==
    [t |-> "object", response |-> r, translation |-> t, tip |-> p]
JsonNullValue ==
    [t |-> "null", response |-> Undefined, translation |-> Undefined,
     tip |-> Undefined]
JsonOther ==
    [t |-> "other", response |-> Undefined, translation |-> Undefined,
     tip |-> Undefined]

\* JSON.parse: does the text parse
JsonValid(text) == text /= "Hola amigo"

\* JSON.parse: the value of a text that parses
JsonParse(text) ==
    CASE text = "{\"response\":\"Hola\",\"translation\":\"Hello\",\"tip\":\"Use formal greetings\"}" ->
            JsonObject(Str(<<"Hola">>), Str(<<"Hello">>),
                       Str(<<"Use", " ", "formal", " ", "greetings">>))
      [] text = "{\"response\":\"Que tal?\",\"translation\":\"How are you?\"}" ->
            JsonObject(Str(<<"Que", " ", "tal?">>),
                       Str(<<"How", " ", "are", " ", "you?">>), Undefined)
      [] text = "{\"reply\":\"Hola\"}" ->
            JsonObject(Undefined, Undefined, Undefined)
      [] text = "42" -> JsonOther
      [] text = "null" -> JsonNullValue

\* the text of a raw reply, as tokens
RawText(text) ==
    CASE text = "Hola amigo" -> <<"Hola", " ", "amigo">>
      [] OTHER -> <<text>>

\* what the function's environment decides for one request
EdgeEnvs ==
    [ bodyReadable : BOOLEAN,
      openAIKey : BOOLEAN,
      upstream : {"reject", "notok", "nochoices", "ok"},
      raw : RawReplies ]

ErrorBody == [wire |-> "error"]
JsonBody(v) == [wire |-> "json", value |-> v]

\* a handler that answers { response, translation } only
AiChatNoTip(env) ==
    IF ~env.bodyReadable \/ ~env.openAIKey \/ env.upstream /= "ok"
    THEN [status |-> 500, body |-> ErrorBody]
    ELSE LET aiResponse == env.raw
             parsedResponse ==
                 IF JsonValid(aiResponse)
                 THEN [JsonParse(aiResponse) EXCEPT !.tip = Undefined]
                 ELSE JsonObject(Str(RawText(aiResponse)),
                                 Str(<<"Translation not available">>),
                                 Undefined)
         IN  [status |-> 200, body |-> JsonBody(parsedResponse)]

\* a handler whose catch block leaves the status out (200 by default)
AiChatErrorWithoutStatus(env) ==
    IF ~env.bodyReadable \/ ~env.openAIKey \/ env.upstream /= "ok"
    THEN [status |-> 200, body |-> ErrorBody]
    ELSE LET aiResponse == env.raw
             parsedResponse ==
                 IF JsonValid(aiResponse)
                 THEN JsonParse(aiResponse)
                 ELSE JsonObject(Str(RawText(aiResponse)),
                                 Str(<<"Translation not available">>),
                                 JsNull)
         IN  [status |-> 200, body |-> JsonBody(parsedResponse)]

\* Deno.serve handler for a POST request
AiChat(env) ==
    IF ~env.bodyReadable \/ ~env.openAIKey \/ env.upstream /= "ok"
    THEN [status |-> 500, body |-> ErrorBody]
    ELSE LET aiResponse == env.raw
             parsedResponse ==
                 IF JsonValid(aiResponse)
                 THEN JsonParse(aiResponse)
                 ELSE JsonObject(Str(RawText(aiResponse)),
                                 Str(<<"Translation not available">>),
                                 JsNull)
         IN  [status |-> 200, body |-> JsonBody(parsedResponse)]

\* which step of the handler fails first under env ("none": no step does)
EdgeFailure(env) ==
    CASE ~env.bodyReadable -> "request body"       \* line 50, req.json()
      [] ~env.openAIKey -> "api key"               \* lines 52-55
      [] env.upstream = "reject" -> "upstream fetch"   \* line 63
      [] env.upstream = "notok" -> "upstream status"   \* lines 77-81
      [] env.upstream = "nochoices" -> "no choice"     \* line 84
      [] OTHER -> "none"

\* the response to a preflight request: status 200, no body
PreflightResponse == [status |-> 200, body |-> [wire |-> "none"]]

\* Deno.serve handler
Serve(method, env) ==
    IF method = "OPTIONS" THEN PreflightResponse ELSE AiChat(env)

\* response.json() on a body the function wrote with JSON.stringify: the
\* value written (a property that is undefined is left out by stringify and
\* reads as undefined again)
ResponseJson(r) == r.body.value

\* response.ok
ResponseOk(r) == r.status >= 200 /\ r.status <= 299

----------------------------------------------------------------------------
(* ChatInterface                                                           *)

\* the greetings are written here in ASCII
getWelcomeMessage(languageName) ==
    CASE languageName = "Spanish" ->
            <<"Hola! Soy tu tutor de espanol. Vamos a practicar juntos!">>
      [] languageName = "French" ->
            <<"Bonjour! Je suis votre tuteur de francais. Pratiquons ensemble!">>
      [] languageName = "German" ->
            <<"Hallo! Ich bin dein Deutsch-Tutor. Lass uns zusammen uben!">>
      [] languageName = "Hindi" ->
            <<"Namaste! Main aapka Hindi shikshak hoon. Chaliye saath mein abhyaas karte hain!">>
      [] languageName = "Mandarin" ->
            <<"Ni hao! Wo shi ni de zhongwen laoshi. Rang women yiqi lianxi ba!">>
      [] languageName = "Japanese" ->
            <<"Konnichiwa! Watashi wa anata no nihongo no sensei desu. Issho ni renshuu shimashou!">>
      [] languageName = "Italian" ->
            <<"Ciao! Sono il tuo tutor di italiano. Pratichiamo insieme!">>
      [] languageName = "Portuguese" ->
            <<"Ola! Sou seu tutor de portugues. Vamos praticar juntos!">>
      [] OTHER -> <<"Hello! Let's practice together!">>

\* the greeting without its translation
welcomeMessageNoTranslation ==
    [ id |-> "welcome",
      role |-> "assistant",
      content |-> Str(getWelcomeMessage(language.name)),
      translation |-> Undefined,
      tip |-> Undefined ]

welcomeMessage ==
    [ id |-> "welcome",
      role |-> "assistant",
      content |-> Str(getWelcomeMessage(language.name)),
      translation |-> Str(<<"Hello! I'm your", " ", language.name, " ",
                            "tutor. Let's practice together!">>),
      tip |-> Undefined ]

ApologyText == <<"Sorry, I encountered an error. Please try again.">>

\* the apology without its translation
ApologyMessageNoTranslation(t) ==
    [ id |-> ToString(t),
      role |-> "assistant",
      content |-> Str(ApologyText),
      translation |-> Undefined,
      tip |-> Undefined ]

\* the message the catch block appends, made at clock reading t
ApologyMessage(t) ==
    [ id |-> ToString(t),
      role |-> "assistant",
      content |-> Str(ApologyText),
      translation |-> Str(ApologyText),
      tip |-> Undefined ]

NoMessage ==
    [ id |-> "", role |-> "", content |-> Undefined,
      translation |-> Undefined, tip |-> Undefined ]

NoResponse == [status |-> 0, body |-> ErrorBody, cause |-> "none", raw |-> ""]

\* the response fetch resolves with; cause and raw are not part of it: they
\* record what happened in the function (which step failed, the model's text)
Received(r, env) ==
    [ status |-> r.status,
      body |-> r.body,
      cause |-> EdgeFailure(env),
      raw |-> IF EdgeFailure(env) = "none" THEN env.raw ELSE "" ]

\* requests to the Record Store; index is the position in `messages` of the
\* turn an insert was built from (not sent: it tells the requests apart)
CreateCall ==
    [ op |-> "createConversation",
      user_id |-> user.id,
      language_code |-> language.code,
      title |-> <<language.name, " ", "Practice">>,
      difficulty |-> language.difficulty_level ]

\* an insert that is sent under the user's id
InsertCallUserId(m, withTranslation, index) ==
    [ op |-> "insertMessage",
      conversation_id |-> user.id,
      role |-> m.role,
      content |-> m.content,
      translation |-> IF withTranslation THEN m.translation ELSE Undefined,
      index |-> index ]

\* an insert that stores the tip too
InsertCallWithTip(m, withTranslation, index) ==
    [ op |-> "insertMessage",
      conversation_id |-> conversationId,
      role |-> m.role,
      content |-> m.content,
      translation |-> IF withTranslation THEN m.translation ELSE Undefined,
      tip |-> m.tip,
      index |-> index ]

InsertCall(m, withTranslation, index) ==
    [ op |-> "insertMessage",
      conversation_id |-> conversationId,
      role |-> m.role,
      content |-> m.content,
      translation |-> IF withTranslation THEN m.translation ELSE Undefined,
      index |-> index ]

UpdateCall(count) ==
    [ op |-> "updateConversation",
      id |-> conversationId,
      message_count |-> count ]

\* Date.now(): a reading not before the last one
ClockReadings == now .. MaxClock

Init ==
    /\ messages = <<>>
    /\ input = <<>>
    /\ loading = FALSE
    /\ conversationId = Null
    /\ language \in Languages
    /\ initPc = "mount"
    /\ pc = "idle"
    /\ closure = <<>>
    /\ userMessage = NoMessage
    /\ response = NoResponse
    /\ storeCalls = <<>>
    /\ inferCalls = <<>>
    /\ now = 0
    /\ ev = "other"

\* useEffect(() => initializeConversation(), []) up to its await
Mount ==
    /\ initPc = "mount"
    /\ user /= NoUser
    /\ storeCalls' = Append(storeCalls, CreateCall)
    /\ initPc' = "awaitCreate"
    /\ ev' = "other"
    /\ UNCHANGED <<messages, input, loading, conversationId, language, pc,
                   closure, userMessage, response, inferCalls, now>>

\* initializeConversation persisting the greeting it seeds
CreateReturnPersistGreeting ==
    /\ initPc = "awaitCreate"
    /\ initPc' = "done"
    /\ ev' = "other"
    /\ \/ \E r \in CreateResults :
             IF ~r.error /\ r.data /= Null
             THEN /\ conversationId' = r.data
                  /\ messages' = <<welcomeMessage>>
                  /\ storeCalls' =
                       Append(storeCalls,
                              [InsertCall(welcomeMessage, TRUE, 1)
                                  EXCEPT !.conversation_id = r.data])
             ELSE UNCHANGED <<messages, conversationId, storeCalls>>
       \/ UNCHANGED <<messages, conversationId, storeCalls>>
    /\ UNCHANGED <<input, loading, language, pc, closure, userMessage,
                   response, inferCalls, now>>

\* initializeConversation seeding the greeting whatever the result
CreateReturnSeedAlways ==
    /\ initPc = "awaitCreate"
    /\ initPc' = "done"
    /\ ev' = "other"
    /\ messages' = <<welcomeMessage>>
    /\ \/ \E r \in CreateResults :
             IF ~r.error /\ r.data /= Null
             THEN conversationId' = r.data
             ELSE UNCHANGED conversationId
       \/ UNCHANGED conversationId
    /\ UNCHANGED <<input, loading, language, pc, closure, userMessage,
                   response, storeCalls, inferCalls, now>>

\* initializeConversation after its await
CreateReturn ==
    /\ initPc = "awaitCreate"
    /\ initPc' = "done"
    /\ ev' = "other"
    /\ \/ \E r \in CreateResults :
             IF ~r.error /\ r.data /= Null
             THEN /\ conversationId' = r.data
                  /\ messages' = <<welcomeMessage>>
             ELSE UNCHANGED <<messages, conversationId>>
       \/ UNCHANGED <<messages, conversationId>>     \* the request rejects
    /\ UNCHANGED <<input, loading, language, pc, closure, userMessage,
                   response, storeCalls, inferCalls, now>>

\* onChange={(e) => setInput(e.target.value)}
SetInput ==
    /\ \E v \in Inputs : input' = v
    /\ ev' = "other"
    /\ UNCHANGED <<messages, loading, conversationId, language, initPc, pc,
                   closure, userMessage, response, storeCalls, inferCalls, now>>

\* line 89 without the test of loading
SendGuardNoLoading == Trim(input) /= <<>> /\ conversationId /= Null

\* line 89 with input in place of input.trim()
SendGuardNoTrim == input /= <<>> /\ conversationId /= Null /\ ~loading

\* line 89: handleSend goes on only if this holds
SendGuard == Trim(input) /= <<>> /\ conversationId /= Null /\ ~loading

\* handleSend up to its first await
HandleSend ==
    /\ ev' = "handleSend"
    /\ IF ~SendGuard
       THEN UNCHANGED <<messages, input, loading, pc, closure, userMessage,
                        response, storeCalls, now>>
       ELSE /\ Len(messages) < MaxMessages
            /\ \E t \in ClockReadings :
                 LET m == [ id |-> ToString(t), role |-> "user",
                            content |-> Str(Trim(input)),
                            translation |-> Undefined, tip |-> Undefined ]
                 IN  /\ now' = t
                     /\ userMessage' = m
                     /\ messages' = Append(messages, m)
                     /\ storeCalls' = Append(storeCalls, InsertCall(m, FALSE, Len(messages) + 1))
            /\ input' = <<>>
            /\ loading' = TRUE
            /\ closure' = messages
            /\ response' = NoResponse
            /\ pc' = "awaitUserInsert"
    /\ UNCHANGED <<conversationId, language, initPc, inferCalls>>

\* lines 109-114: the real turns of the render's messages, as {role, content}
conversationHistory ==
    LET kept == SelectSeq(closure, LAMBDA m : m.id /= "welcome")
    IN  [i \in 1..Len(kept) |-> [role |-> kept[i].role, content |-> kept[i].content]]

\* lines 122-127: the body of the request to the ai-chat function
InferRequest ==
    [ messages |-> Append(conversationHistory,
                          [role |-> "user", content |-> userMessage.content]),
      languageCode |-> language.code,
      languageName |-> language.name,
      difficulty |-> language.difficulty_level ]

\* a catch block that takes the optimistic user turn back
CatchFinallyRollback ==
    /\ \E t \in ClockReadings :
         /\ now' = t
         /\ messages' = Append(closure, ApologyMessage(t))
    /\ loading' = FALSE
    /\ pc' = "idle"

\* a catch block that reports the failure twice
CatchFinallyTwice ==
    /\ \E t \in ClockReadings :
         /\ now' = t
         /\ messages' = messages \o <<ApologyMessage(t), ApologyMessage(t)>>
    /\ loading' = FALSE
    /\ pc' = "idle"

\* a catch block that empties the sequence instead of appending to it
CatchFinallyClear ==
    /\ \E t \in ClockReadings : now' = t
    /\ messages' = <<>>
    /\ loading' = FALSE
    /\ pc' = "idle"

\* a catch block that only logs the error
CatchFinallySilent ==
    /\ UNCHANGED <<messages, now>>
    /\ loading' = FALSE
    /\ pc' = "idle"

\* lines 161-174: the catch block, then the finally block
CatchFinally ==
    /\ \E t \in ClockReadings :
         /\ now' = t
         /\ messages' = Append(messages, ApologyMessage(t))
    /\ loading' = FALSE
    /\ pc' = "idle"

\* line 173: the finally block after a try block that completed
Finally ==
    /\ loading' = FALSE
    /\ pc' = "idle"

\* lines 101-128: the user-turn insert returns; the request is built and sent
UserInsertReturn ==
    /\ pc = "awaitUserInsert"
    /\ ev' = "other"
    /\ \E o \in StoreOutcomes :
         IF o = "reject"
         THEN /\ pc' = "idle"       \* handleSend ends by rejecting
              /\ UNCHANGED inferCalls
         ELSE /\ inferCalls' = Append(inferCalls, InferRequest)
              /\ pc' = "awaitFetch"
    /\ UNCHANGED <<messages, input, loading, conversationId, language, initPc,
                   closure, userMessage, response, storeCalls, now>>

\* lines 116-134: fetch settles
FetchReturn ==
    /\ pc = "awaitFetch"
    /\ ev' = "other"
    /\ \/ \E env \in EdgeEnvs :
             LET r == Received(Serve("POST", env), env)
             IN  /\ response' = r
                 /\ IF ~ResponseOk(r)
                    THEN CatchFinally    \* line 131 throws
                    ELSE /\ pc' = "awaitJson"
                         /\ UNCHANGED <<messages, loading, now>>
       \/ /\ CatchFinally               \* fetch rejects
          /\ UNCHANGED response
    /\ UNCHANGED <<input, conversationId, language, initPc, closure,
                   userMessage, storeCalls, inferCalls>>

\* lines 134-151: response.json() settles; the assistant turn is appended
JsonReturn ==
    /\ pc = "awaitJson"
    /\ ev' = "other"
    /\ \/ LET aiData == ResponseJson(response)
          IN  IF aiData.t = "null"
              THEN /\ CatchFinally      \* aiData.response throws a TypeError
                   /\ UNCHANGED storeCalls
              ELSE \E t \in ClockReadings :
                     LET assistantMessage ==
                             [ id |-> ToString(t),
                               role |-> "assistant",
                               content |-> aiData.response,
                               translation |-> aiData.translation,
                               tip |-> aiData.tip ]
                     IN  /\ now' = t
                         /\ messages' = Append(messages, assistantMessage)
                         /\ storeCalls' =
                              Append(storeCalls,
                                     InsertCall(assistantMessage, TRUE,
                                                Len(messages) + 1))
                         /\ pc' = "awaitAsstInsert"
                         /\ UNCHANGED loading
       \/ /\ CatchFinally               \* response.json() rejects
          /\ UNCHANGED storeCalls
    /\ UNCHANGED <<input, conversationId, language, initPc, closure,
                   userMessage, response, inferCalls>>

\* the flag cleared as soon as the assistant turn is stored, before the
\* counter update
AsstInsertReturnClearsFlag ==
    /\ pc = "awaitAsstInsert"
    /\ ev' = "other"
    /\ \E o \in StoreOutcomes :
         IF o = "reject"
         THEN /\ CatchFinally
              /\ UNCHANGED storeCalls
         ELSE /\ storeCalls' = Append(storeCalls, UpdateCall(Len(closure) + 2))
              /\ pc' = "awaitUpdate"
              /\ loading' = FALSE
              /\ UNCHANGED <<messages, now>>
    /\ UNCHANGED <<input, conversationId, language, initPc, closure,
                   userMessage, response, inferCalls>>

\* lines 146-159: the assistant-turn insert returns; the counter update is sent
AsstInsertReturn ==
    /\ pc = "awaitAsstInsert"
    /\ ev' = "other"
    /\ \E o \in StoreOutcomes :
         IF o = "reject"
         THEN /\ CatchFinally
              /\ UNCHANGED storeCalls
         ELSE /\ storeCalls' = Append(storeCalls, UpdateCall(Len(closure) + 2))
              /\ pc' = "awaitUpdate"
              /\ UNCHANGED <<messages, loading, now>>
    /\ UNCHANGED <<input, conversationId, language, initPc, closure,
                   userMessage, response, inferCalls>>

\* lines 153-174: the counter update returns
UpdateReturn ==
    /\ pc = "awaitUpdate"
    /\ ev' = "other"
    /\ \E o \in StoreOutcomes :
         IF o = "reject"
         THEN CatchFinally
         ELSE /\ Finally
              /\ UNCHANGED <<messages, now>>
    /\ UNCHANGED <<input, conversationId, language, initPc, closure,
                   userMessage, response, storeCalls, inferCalls>>

Next ==
    \/ Mount
    \/ CreateReturn
    \/ SetInput
    \/ HandleSend
    \/ UserInsertReturn
    \/ FetchReturn
    \/ JsonReturn
    \/ AsstInsertReturn
    \/ UpdateReturn

Spec == Init /\ [][Next]_vars

----------------------------------------------------------------------------
(* Vocabulary of the properties                                            *)

\* a text with no character other than whitespace
Blank(s) == \A i \in 1..Len(s) : IsSpace(s[i])

\* c is s without its leading and trailing whitespace
IsTrimOf(c, s) ==
    /\ c /= <<>> => ~IsSpace(c[1]) /\ ~IsSpace(c[Len(c)])
    /\ \E i \in 0..Len(s) : \E j \in i..Len(s) :
         /\ c = SubSeq(s, i + 1, j)
         /\ Blank(SubSeq(s, 1, i))
         /\ Blank(SubSeq(s, j + 1, Len(s)))

\* the step is a call of handleSend
SendCalled == ev' = "handleSend"

\* the requests of one kind, in issue order
InsertCalls == SelectSeq(storeCalls, LAMBDA c : c.op = "insertMessage")
UserInsertCalls == SelectSeq(InsertCalls, LAMBDA c : c.role = "user")
UpdateCalls == SelectSeq(storeCalls, LAMBDA c : c.op = "updateConversation")

IsApology(m) ==
    /\ m.role = "assistant"
    /\ m.content = Str(ApologyText)
    /\ m.translation = Str(ApologyText)
    /\ m.tip = Undefined

\* handleSend waits for the ai-chat function or for the body of its response
InferencePending == pc \in {"awaitFetch", "awaitJson"}

\* the step ends handleSend on a failure of the inference call
InferenceFails == InferencePending /\ pc' = "idle"

LastMessage == messages[Len(messages)]

----------------------------------------------------------------------------
(* C1 *)

\* C1: a call of handleSend made while loading is set, or while the input is
\* empty or whitespace only, or while no conversation id is stored, leaves
\* messages, loading and input as they are and issues no request to the
\* Record Store or to the ai-chat function.
C1_SubmitNoOp ==
    [][ (SendCalled /\ (loading \/ Blank(input) \/ conversationId = Null))
          => UNCHANGED <<messages, loading, input, storeCalls, inferCalls>> ]_vars

\* handleSend was just called with a sendable text while loading was set
C1_Witness ==
    /\ ev = "handleSend"
    /\ loading
    /\ ~Blank(input)
    /\ conversationId /= Null

----------------------------------------------------------------------------
(* C2 *)

\* C2: while a handleSend is running the flag loading is set, and a call of
\* handleSend made then changes nothing of the session: no turn, no request,
\* and the running call's position and locals stay as they are (nothing is
\* kept to run later).
C2_SecondSubmitDropped ==
    /\ [](pc /= "idle" => loading)
    /\ [][ (SendCalled /\ pc /= "idle")
             => UNCHANGED <<messages, input, loading, conversationId, initPc,
                            pc, closure, userMessage, response, storeCalls,
                            inferCalls, now>> ]_vars

\* handleSend was just called with a sendable text while the first call was
\* waiting for the ai-chat function
C2_Witness ==
    /\ ev = "handleSend"
    /\ pc = "awaitFetch"
    /\ ~Blank(input)
    /\ Len(UserInsertCalls) = 1

----------------------------------------------------------------------------
(* C3 *)

\* C3: once an accepted handleSend has ended, by completing or by an
\* exception, the flag loading is clear.
C3_FlagClearedWhenDone == pc = "idle" => ~loading

----------------------------------------------------------------------------
(* C4 *)

\* C4: every message_count written is 2 more than the one written before it
\* (0 before the first), and once the assistant turn of an exchange is in
\* place the sequence is 2 longer than it was when handleSend was called.
C4_CountAndLengthPlusTwo ==
    /\ \A i \in 1..Len(UpdateCalls) :
         UpdateCalls[i].message_count =
             (IF i = 1 THEN 0 ELSE UpdateCalls[i - 1].message_count) + 2
    /\ pc = "awaitUpdate" => Len(messages) = Len(closure) + 2

----------------------------------------------------------------------------
(* C5 *)

\* the session has seen one handleSend, for "Hola", which ran to its end
\* with no failure surfaced
C5_Scenario ==
    /\ initPc = "done"
    /\ pc = "idle"
    /\ ~loading
    /\ Len(UserInsertCalls) = 1
    /\ UserInsertCalls[1].content = Str(<<"Hola">>)
    /\ Len(UpdateCalls) = 1
    /\ ~IsApology(LastMessage)

\* C5: after a successful Initialize and one successful Submit("Hola") the
\* sequence is [greeting, user "Hola", assistant reply] and the
\* message_count written is 2.
C5_HolaScenario ==
    C5_Scenario =>
        /\ Len(messages) = 3
        /\ messages[1] = welcomeMessage
        /\ messages[2].role = "user" /\ messages[2].content = Str(<<"Hola">>)
        /\ messages[3].role = "assistant"
        /\ UpdateCalls[1].message_count = 2

----------------------------------------------------------------------------
(* C6 *)

\* C6: when the inference call of a handleSend fails, the step appends one
\* turn, right after the user turn: the apology as content and as
\* translation, with no tip; it issues no request; and over the whole run
\* there are no more inference requests than accepted submissions and no
\* insertMessage is built from an apology turn.
C6_InferenceFailure ==
    /\ [][ InferenceFails =>
             /\ LastMessage = userMessage
             /\ Len(messages') = Len(messages) + 1
             /\ SubSeq(messages', 1, Len(messages)) = messages
             /\ IsApology(messages'[Len(messages')])
             /\ UNCHANGED <<storeCalls, inferCalls>> ]_vars
    /\ [](Len(inferCalls) <= Len(UserInsertCalls))
    /\ [](\A i \in 1..Len(InsertCalls) :
            /\ InsertCalls[i].index \in 1..Len(messages)
            /\ ~IsApology(messages[InsertCalls[i].index]))

\* an exchange has ended with the apology right after its user turn
C6_Witness ==
    /\ pc = "idle"
    /\ Len(messages) >= 3
    /\ IsApology(LastMessage)
    /\ messages[Len(messages) - 1] = userMessage
    /\ Len(inferCalls) = 1

----------------------------------------------------------------------------
(* C7 *)

\* C7 as stated: after a failed inference call the sequence is 1 longer than
\* it was when handleSend was called, and loading is clear.
C7_LengthPlusOne ==
    [][ InferenceFails =>
          /\ Len(messages') = Len(closure) + 1
          /\ ~loading' ]_vars

\* C7, amended: after a failed inference call the sequence is 2 longer than
\* it was when handleSend was called (the user turn and the apology), and
\* loading is clear.
C7_LengthPlusTwo ==
    [][ InferenceFails =>
          /\ Len(messages') = Len(closure) + 2
          /\ ~loading' ]_vars

\* an exchange on a sequence of three turns has ended with an apology: five
\* turns, loading clear
C7_Witness ==
    /\ pc = "idle"
    /\ ~loading
    /\ Len(closure) = 3
    /\ Len(messages) = 5
    /\ IsApology(LastMessage)
    /\ messages[4] = userMessage

----------------------------------------------------------------------------
(* C8 *)

\* C8: no insertMessage request is built from the greeting: none is for the
\* first position of the sequence, and none carries the greeting's role and
\* content.
C8_GreetingNeverInserted ==
    \A i \in 1..Len(InsertCalls) :
        /\ InsertCalls[i].index /= 1
        /\ messages[InsertCalls[i].index].id /= "welcome"
        /\ ~(/\ InsertCalls[i].role = "assistant"
             /\ InsertCalls[i].content = welcomeMessage.content)

\* the greeting is shown and both turns of an exchange have been sent to the
\* Record Store
C8_Witness ==
    /\ messages /= <<>>
    /\ messages[1] = welcomeMessage
    /\ Len(InsertCalls) = 2
    /\ InsertCalls[2].role = "assistant"

----------------------------------------------------------------------------
(* C9 *)

\* C9: a call of handleSend that is accepted appends, in the step of the
\* call, one user turn whose content is the input without its leading and
\* trailing whitespace, and sets loading, with handleSend at its first await;
\* and no later step removes or changes a user turn.
C9_OptimisticAppend ==
    /\ [][ (SendCalled /\ ~loading /\ ~Blank(input) /\ conversationId /= Null)
             => /\ Len(messages') = Len(messages) + 1
                /\ SubSeq(messages', 1, Len(messages)) = messages
                /\ messages'[Len(messages')].role = "user"
                /\ messages'[Len(messages')].content.k = "string"
                /\ IsTrimOf(messages'[Len(messages')].content.v, input)
                /\ loading'
                /\ pc' = "awaitUserInsert"
                /\ UNCHANGED inferCalls ]_vars
    /\ [][ \A i \in 1..Len(messages) :
             messages[i].role = "user"
                => Len(messages') >= i /\ messages'[i] = messages[i] ]_vars

\* the padded phrase was submitted: its trimmed text is the last turn, and
\* handleSend is at its first await
C9_Witness ==
    /\ pc = "awaitUserInsert"
    /\ loading
    /\ LastMessage.role = "user"
    /\ LastMessage.content = Str(<<"Buenos", " ", "dias">>)

----------------------------------------------------------------------------
(* C10 *)

\* C10: every user-turn insert that has returned, in whatever way, was
\* followed by a request to the ai-chat function.
C10_InferenceAlwaysCalled ==
    Len(inferCalls) =
        Len(UserInsertCalls) - (IF pc = "awaitUserInsert" THEN 1 ELSE 0)

----------------------------------------------------------------------------
(* C11 *)

\* C11: when the assistant-turn insert returns, in whatever way, the step
\* issues the updateConversation request; and the return of the
\* assistant-turn insert or of the counter update, in whatever way, leaves
\* the sequence as it is.
C11_PersistenceInvisible ==
    [][ /\ (pc = "awaitAsstInsert" /\ pc' /= pc) =>
             /\ Len(UpdateCalls') = Len(UpdateCalls) + 1
             /\ messages' = messages
        /\ (pc = "awaitUpdate" /\ pc' /= pc) => messages' = messages ]_vars

----------------------------------------------------------------------------
(* C12 *)

\* initializeConversation has ended without a conversation id
FailedInit == initPc = "done" /\ conversationId = Null

\* C12: once initializeConversation has ended without a conversation id,
\* the sequence is empty, no handleSend runs, and every step leaves the
\* session there: no id is stored, no turn is appended, no request is issued
\* and initializeConversation is not run again.
C12_FailedInitTerminal ==
    /\ [](FailedInit => messages = <<>> /\ pc = "idle" /\ ~loading)
    /\ [][ FailedInit =>
             /\ FailedInit'
             /\ UNCHANGED <<messages, loading, pc, storeCalls, inferCalls>> ]_vars

\* handleSend was just called with a sendable text after a failed Initialize
C12_Witness ==
    /\ FailedInit
    /\ ev = "handleSend"
    /\ ~Blank(input)
    /\ Len(storeCalls) = 1

----------------------------------------------------------------------------
(* C13 *)

\* what the component renders from
Rendered == <<messages, loading, input, language>>

\* C13: the step in which initializeConversation ends without a conversation
\* id changes what the component renders.
C13_FailedInitSurfaced ==
    [][ (initPc = "awaitCreate" /\ FailedInit') => Rendered' /= Rendered ]_vars

----------------------------------------------------------------------------
(* C14 *)

\* a synthetic greeting: the assistant turn with the local id 'welcome', a
\* text and a translation, and no tip
IsGreeting(m) ==
    /\ m.id = "welcome"
    /\ m.role = "assistant"
    /\ m.content.k = "string" /\ m.content.v /= <<>>
    /\ m.translation.k = "string" /\ m.translation.v /= <<>>
    /\ m.tip = Undefined

\* C14: the sequence is empty exactly while no conversation id is stored;
\* the step that stores the id makes the sequence the greeting alone; and a
\* sequence that is not empty starts with the greeting and holds it nowhere
\* else.
C14_GreetingFirstAndOnce ==
    /\ [](messages = <<>> <=> conversationId = Null)
    /\ [][ (conversationId = Null /\ conversationId' /= Null)
             => Len(messages') = 1 /\ IsGreeting(messages'[1]) ]_vars
    /\ [](messages /= <<>> =>
            /\ IsGreeting(messages[1])
            /\ \A i \in 2..Len(messages) :
                 messages[i].id /= "welcome" /\ messages[i] /= messages[1])

\* the greeting of a language without an entry of its own, followed by the
\* turns of two exchanges
C14_Witness ==
    /\ language.name = "Korean"
    /\ Len(messages) >= 5
    /\ IsGreeting(messages[1])
    /\ pc = "idle"

----------------------------------------------------------------------------
(* C15 *)

\* the turns of a sequence that are neither the greeting nor an apology,
\* each as {role, content}
RealTurns(seq) ==
    LET kept == SelectSeq(seq, LAMBDA m : ~IsGreeting(m) /\ ~IsApology(m))
    IN  [i \in 1..Len(kept) |->
            [role |-> kept[i].role, content |-> kept[i].content]]

\* C15: the step that sends a request to the ai-chat function sends, as
\* messages, the real turns of the sequence handleSend was called on (no
\* greeting, no apology), in order, then the new user turn; with the
\* language's code, name and difficulty level.
C15_HistorySent ==
    [][ inferCalls' /= inferCalls =>
          /\ Len(inferCalls') = Len(inferCalls) + 1
          /\ LET req == inferCalls'[Len(inferCalls')]
             IN  /\ req.messages =
                      Append(RealTurns(closure),
                             [role |-> "user", content |-> userMessage.content])
                 /\ req.languageCode = language.code
                 /\ req.languageName = language.name
                 /\ req.difficulty = language.difficulty_level ]_vars

----------------------------------------------------------------------------
(* C16 *)

\* C16: in every step the sequence before the step is a prefix of the
\* sequence after it.
C16_AppendOnly ==
    [][ /\ Len(messages') >= Len(messages)
        /\ SubSeq(messages', 1, Len(messages)) = messages ]_vars

\* a second exchange has ended in an apology after a first one that did not
C16_Witness ==
    /\ pc = "idle"
    /\ Len(messages) >= 5
    /\ ~IsApology(messages[3])
    /\ IsApology(LastMessage)

----------------------------------------------------------------------------
(* C17 *)

\* C17: the speakers alternate from the greeting on: assistant at the odd
\* positions, user at the even ones.
C17_SpeakersAlternate ==
    \A i \in 1..Len(messages) :
        messages[i].role = (IF i % 2 = 1 THEN "assistant" ELSE "user")

----------------------------------------------------------------------------
(* C18, C19 *)

\* the raw replies that are an object with a string response and a string
\* translation
StructuredReplies ==
    { "{\"response\":\"Hola\",\"translation\":\"Hello\",\"tip\":\"Use formal greetings\"}",
      "{\"response\":\"Que tal?\",\"translation\":\"How are you?\"}" }

\* the step appends the assistant turn made from the body of the response
ReplyAppended == pc = "awaitJson" /\ pc' = "awaitAsstInsert"

AppendedMessage == messages'[Len(messages')]

\* C18: the assistant turn appended for a structured reply carries the
\* reply's response as content, its translation and its tip: "Hola", "Hello"
\* and "Use formal greetings" for the first reply, "Que tal?",
\* "How are you?" and no tip for the second.
C18_StructuredReplyShown ==
    [][ (ReplyAppended /\ response.raw \in StructuredReplies) =>
          /\ Len(messages') = Len(messages) + 1
          /\ AppendedMessage.role = "assistant"
          /\ IF response.raw = "{\"response\":\"Que tal?\",\"translation\":\"How are you?\"}"
             THEN /\ AppendedMessage.content = Str(<<"Que", " ", "tal?">>)
                  /\ AppendedMessage.translation =
                       Str(<<"How", " ", "are", " ", "you?">>)
                  /\ AppendedMessage.tip = Undefined
             ELSE /\ AppendedMessage.content = Str(<<"Hola">>)
                  /\ AppendedMessage.translation = Str(<<"Hello">>)
                  /\ AppendedMessage.tip =
                       Str(<<"Use", " ", "formal", " ", "greetings">>) ]_vars

\* the turn for the reply with a tip is shown
C18_Witness ==
    /\ pc = "awaitAsstInsert"
    /\ response.raw \in StructuredReplies
    /\ LastMessage.content = Str(<<"Hola">>)
    /\ LastMessage.translation = Str(<<"Hello">>)
    /\ LastMessage.tip = Str(<<"Use", " ", "formal", " ", "greetings">>)

\* C19: for a raw reply that is not structured, the function answers
\* {response: raw text, translation: "Translation not available", tip: null}
\* and the assistant turn appended shows the raw text.
C19_FallbackForUnstructured ==
    [][ /\ (pc = "awaitFetch" /\ pc' = "awaitJson"
              /\ response'.raw \notin StructuredReplies)
           => ResponseJson(response') =
                 JsonObject(Str(RawText(response'.raw)),
                            Str(<<"Translation not available">>), JsNull)
        /\ (ReplyAppended /\ response.raw \notin StructuredReplies)
           => /\ AppendedMessage.content = Str(RawText(response.raw))
              /\ AppendedMessage.translation =
                   Str(<<"Translation not available">>)
              /\ AppendedMessage.tip = JsNull ]_vars

----------------------------------------------------------------------------
(* C20 *)

\* C20: for a request that is not OPTIONS, a request body that cannot be
\* read, a missing API key, an upstream fetch that fails, an upstream status
\* that is not a success and an upstream body without a first choice each
\* give status 500 with the error body; and when fetch settles with a status
\* that is not a success, the step appends the apology, ends handleSend and
\* issues no request (no assistant-turn insert, no counter update).
C20_FunctionFailureIsHardFailure ==
    /\ [](\A env \in EdgeEnvs :
            (~env.bodyReadable \/ ~env.openAIKey \/ env.upstream /= "ok")
               => /\ Serve("POST", env).status = 500
                  /\ Serve("POST", env).body = ErrorBody)
    /\ [][ (pc = "awaitFetch" /\ pc' /= pc) =>
             /\ response'.cause /= "none" => response'.status = 500
             /\ (response'.status < 200 \/ response'.status > 299) =>
                  /\ pc' = "idle"
                  /\ ~loading'
                  /\ Len(messages') = Len(messages) + 1
                  /\ IsApology(AppendedMessage)
                  /\ UNCHANGED <<storeCalls, inferCalls>> ]_vars

\* the upstream answered without a first choice: status 500 reached the
\* client, the apology is shown and no counter update was sent
C20_Witness ==
    /\ pc = "idle"
    /\ response.cause = "no choice"
    /\ response.status = 500
    /\ IsApology(LastMessage)
    /\ messages[Len(messages) - 1] = userMessage
    /\ Len(UpdateCalls) = 0

----------------------------------------------------------------------------
(* C21 *)

\* C21: of two updateConversation requests of the session, the later one
\* never writes a smaller message_count than the earlier one; no written
\* count exceeds the length of the sequence the last accepted handleSend was
\* called on plus 2, and that sequence is never longer than messages.
C21_CountNonDecreasing ==
    /\ \A i \in 1..Len(UpdateCalls) : \A j \in i..Len(UpdateCalls) :
          UpdateCalls[i].message_count <= UpdateCalls[j].message_count
    /\ \A i \in 1..Len(UpdateCalls) :
          UpdateCalls[i].message_count <= Len(closure) + 2
    /\ Len(closure) <= Len(messages)

\* two counter updates were sent, the second one by a later handleSend
C21_Witness ==
    /\ Len(UpdateCalls) = 2
    /\ UpdateCalls[1].message_count < UpdateCalls[2].message_count
    /\ pc = "idle"

----------------------------------------------------------------------------
(* C22 *)

\* C22: once a conversation id is stored no step changes it, and every
\* insertMessage and updateConversation request carries the stored id.
C22_ConversationIdFixed ==
    /\ [][conversationId /= Null => conversationId' = conversationId]_vars
    /\ [](\A k \in 1..Len(storeCalls) :
            /\ storeCalls[k].op = "insertMessage"
                 => /\ conversationId /= Null
                    /\ storeCalls[k].conversation_id = conversationId
            /\ storeCalls[k].op = "updateConversation"
                 => /\ conversationId /= Null
                    /\ storeCalls[k].id = conversationId)

\* both inserts of an exchange and its counter update were sent
C22_Witness ==
    /\ conversationId \in ConvIds
    /\ Len(InsertCalls) >= 2
    /\ Len(UpdateCalls) >= 1

----------------------------------------------------------------------------
(* C23 *)

\* the positions of handleSend, in the order a call without failure visits
\* them
SendPath ==
    << "idle", "awaitUserInsert", "awaitFetch", "awaitJson",
       "awaitAsstInsert", "awaitUpdate", "idle" >>

LastStoreCall == storeCalls'[Len(storeCalls')]

\* C23: handleSend moves along idle, awaitUserInsert, awaitFetch, awaitJson,
\* awaitAsstInsert, awaitUpdate, idle (or leaves to idle on a failure), and
\* its steps do, in this order: append the user turn, set loading and send the
\* user-turn insert; on its return call the ai-chat function; on the body of
\* the response append the assistant turn and send its insert; on its return
\* send the counter update; on its return clear loading. loading is set at
\* every position but idle, so the assistant turn is in messages while
\* loading is set.
C23_EventOrder ==
    /\ [][ /\ pc' /= pc =>
                \/ pc' = "idle"
                \/ \E k \in 1..5 : pc = SendPath[k] /\ pc' = SendPath[k + 1]
           /\ (pc = "idle" /\ pc' = "awaitUserInsert") =>
                /\ messages' = Append(messages, userMessage')
                /\ userMessage'.role = "user"
                /\ loading'
                /\ storeCalls' = Append(storeCalls, LastStoreCall)
                /\ LastStoreCall.op = "insertMessage"
                /\ LastStoreCall.role = "user"
                /\ inferCalls' = inferCalls
           /\ (pc = "awaitUserInsert" /\ pc' = "awaitFetch") =>
                /\ Len(inferCalls') = Len(inferCalls) + 1
                /\ UNCHANGED <<messages, storeCalls, loading>>
           /\ (pc = "awaitFetch" /\ pc' = "awaitJson") =>
                UNCHANGED <<messages, storeCalls, inferCalls, loading>>
           /\ (pc = "awaitJson" /\ pc' = "awaitAsstInsert") =>
                /\ Len(messages') = Len(messages) + 1
                /\ SubSeq(messages', 1, Len(messages)) = messages
                /\ messages'[Len(messages')].role = "assistant"
                /\ storeCalls' = Append(storeCalls, LastStoreCall)
                /\ LastStoreCall.op = "insertMessage"
                /\ LastStoreCall.role = "assistant"
                /\ UNCHANGED <<inferCalls, loading>>
           /\ (pc = "awaitAsstInsert" /\ pc' = "awaitUpdate") =>
                /\ storeCalls' = Append(storeCalls, LastStoreCall)
                /\ LastStoreCall.op = "updateConversation"
                /\ UNCHANGED <<messages, inferCalls, loading>>
           /\ (pc = "awaitUpdate" /\ pc' = "idle" /\ messages' = messages) =>
                /\ loading /\ ~loading'
                /\ UNCHANGED <<storeCalls, inferCalls>> ]_vars
    /\ [](pc /= "idle" => loading)
    /\ [](pc \in {"awaitAsstInsert", "awaitUpdate"} =>
            /\ LastMessage.role = "assistant"
            /\ messages[Len(messages) - 1] = userMessage)

\* the assistant turn is shown, the counter update is awaited and loading is
\* still set
C23_Witness ==
    /\ pc = "awaitUpdate"
    /\ loading
    /\ Len(messages) = 3
    /\ LastMessage.role = "assistant"
    /\ ~IsApology(LastMessage)
    /\ Len(UpdateCalls) = 1

----------------------------------------------------------------------------
(* C24 *)

\* C24: when a conversation id is stored and loading is not set, messages
\* ends with an assistant turn.
C24_ReadyEndsWithAssistant ==
    (conversationId /= Null /\ ~loading) =>
        /\ messages /= <<>>
        /\ LastMessage.role = "assistant"

\* handleSend has ended in the catch block: loading is cleared and the
\* apology is the last turn
C24_Witness ==
    /\ conversationId /= Null
    /\ ~loading
    /\ pc = "idle"
    /\ Len(messages) >= 3
    /\ IsApology(LastMessage)

----------------------------------------------------------------------------
(* C25 *)

\* C25: the insertMessage requests, in issue order, were built from turns at
\* increasing positions of messages, each with the role and content of its
\* turn; no such turn is the greeting or an apology; every user turn has its
\* request; no request has a tip.
C25_InsertsAreRealTurns ==
    /\ \A k \in 1..Len(InsertCalls) :
          LET c == InsertCalls[k]
          IN  /\ c.index \in 1..Len(messages)
              /\ c.role = messages[c.index].role
              /\ c.content = messages[c.index].content
              /\ ~IsGreeting(messages[c.index])
              /\ ~IsApology(messages[c.index])
              /\ "tip" \notin DOMAIN c
              /\ \A l \in 1..(k - 1) : InsertCalls[l].index < c.index
    /\ \A i \in 1..Len(messages) :
          messages[i].role = "user" =>
              \E k \in 1..Len(InsertCalls) : InsertCalls[k].index = i

\* a reply was stored, the next exchange ended in an apology: three inserts
\* for five turns
C25_Witness ==
    /\ Len(messages) = 5
    /\ IsApology(LastMessage)
    /\ ~IsApology(messages[3])
    /\ Len(InsertCalls) = 3

----------------------------------------------------------------------------
(* C26 *)

\* C26: the step that sends an updateConversation request writes the number
\* of turns of messages that are neither the greeting nor an apology.
C26_CountIsRealTurns ==
    [][ Len(UpdateCalls') = Len(UpdateCalls) + 1 =>
          UpdateCalls'[Len(UpdateCalls')].message_count
              = Len(RealTurns(messages)) ]_vars

----------------------------------------------------------------------------
(* C27 *)

\* C27: no two turns of messages have the same id.
C27_IdsDistinct ==
    \A i \in 1..Len(messages) : \A j \in 1..Len(messages) :
        i /= j => messages[i].id /= messages[j].id

====
